---------------------------- MODULE Spec2Model ----------------------------
(***************************************************************************)
(* Model of lab1/text_processor/processor.py: remove_duplicate_letters.   *)
(*                                                                         *)
(* A Python str is modelled as a sequence of one-character strings.  The   *)
(* function is modelled twice from the same branch operators: as a state   *)
(* machine that executes the for-loop one iteration per step, and as the   *)
(* operator remove_duplicate_letters(s) that folds the same loop body over *)
(* s, so that the function can be applied to values other than the input.  *)
(* ConcSpec runs several invocations with interleaved loop iterations;     *)
(* CalcSpec models the functions of tdd/calculator/operations.py; DbSpec   *)
(* models lab2/database/db_manager.py over SQLite and PageSpec one CRUD    *)
(* page of lab2/ui/pages.                                                  *)
(***************************************************************************)
EXTENDS Integers, Sequences, FiniteSets, TLC

VARIABLES
    text,          \* the argument of the call
    pos,           \* number of characters the for-loop has consumed
    result,        \* list of str pieces (each a sequence of characters)
    current_word,  \* list of the characters kept in the word being built
    pc,            \* "call" | "loop" | "done" | "error"
    ret,           \* the returned str once pc = "done"
    kept,          \* history: input positions whose character was appended
    calls,         \* concurrent invocations: call id -> its argument and position
    frames,        \* concurrent invocations: frame id -> the lists of that frame
    calc,          \* calculator: the call being made and its result
    db,            \* address database: the rows of the four tables
    last,          \* address database: the DatabaseManager call made last
    page           \* one CRUD page of the window: table, selection, buttons

textVars == <<text, pos, result, current_word, pc, ret, kept>>
concVars == <<calls, frames>>
calcVars == <<calc>>
dbVars == <<db, last>>
uiVars == <<page>>

vars == <<text, pos, result, current_word, pc, ret, kept, calls, frames, calc,
          db, last, page>>

(***************************************************************************)
(* Bounds and alphabet                                                     *)
(***************************************************************************)
MaxLen == 4

\* characters the exhaustive inputs are drawn from
Chars == {"a", "b", "L", "l", "1", " ", "."}

\* characters for which str.isalnum() is true, among those the model uses
Letters == {"a", "b", "c", "d", "e", "f", "g", "h", "i", "l", "m", "n",
            "o", "r", "w", "G", "H", "L"}
Digits == {"1", "2"}

\* inputs of tests/test_text_processor.py (ASCII ones)
TestInputs ==
    { <<"h","e","l","l","o">>,
      <<"h","e","l","l","o"," ","w","o","r","l","d">>,
      <<"a","b","c"," ","d","e","f">>,
      <<"a","a","a","a"," ","b","b","b","b">>,
      <<>>,
      <<"H","e","L","L","o">>,
      <<"H","e","l","l","o"," ","w","o","r","l","d","."," ",
        "G","o","o","d"," ","m","o","r","n","i","n","g","!">>,
      <<"a","b","b","a">>,
      <<"a","a","1","1"," ","b","b","2","2">> }

BoundedStrings == UNION { [1..n -> Chars] : n \in 0..MaxLen }

Inputs == BoundedStrings \cup TestInputs

(***************************************************************************)
(* The branches of the loop body                                           *)
(***************************************************************************)
\* variant: str.isalpha() is used, digits count as separators
isalnum_isalpha(c) == c \in Letters

\* char.isalnum()
isalnum(c) == c \in Letters \cup Digits

\* variant: the emptiness test is dropped from the condition
Truthy_Always(word) == TRUE

\* truth value of the list current_word (empty list is false)
Truthy(word) == word # <<>>

\* current_word[-1] raises IndexError on an empty list
IndexRaises(word) == Len(word) = 0

\* `current_word and current_word[-1] == char`, evaluated left to right
CondRaises(word, char) == Truthy(word) /\ IndexRaises(word)

\* case folding of the letters the model uses (str.lower)
lower(c) ==
    CASE c = "L" -> "l"
      [] c = "H" -> "h"
      [] c = "G" -> "g"
      [] OTHER -> c

\* variant: the character is compared with every character kept in the word
IsRepeat_Seen(word, char) ==
    Truthy(word) /\ ~IndexRaises(word) /\ \E k \in 1..Len(word) : word[k] = char

\* variant: the character is compared with current_word[0]
IsRepeat_First(word, char) ==
    Truthy(word) /\ ~IndexRaises(word) /\ word[1] = char

\* variant: the comparison is case-insensitive
IsRepeat_CaseFold(word, char) ==
    Truthy(word) /\ ~IndexRaises(word) /\ lower(word[Len(word)]) = lower(char)

\* variant: the comparison is made only once the word has two characters
IsRepeat_LongWord(word, char) ==
    Len(word) > 1 /\ word[Len(word)] = char

IsRepeat(word, char) ==
    Truthy(word) /\ ~IndexRaises(word) /\ word[Len(word)] = char

\* current_word.append(char)
KeepChar(word, char) == Append(word, char)

\* variant: the buffer is not reset at the end of a word
ClearWord_Forgotten(word) == word

\* current_word = []
ClearWord(word) == <<>>

\* variant: one-character words are not flushed
FlushWord_IfLong(res, word) == IF Len(word) > 1 THEN Append(res, word) ELSE res

\* if current_word: result.append("".join(current_word))
FlushWord(res, word) == IF Truthy(word) THEN Append(res, word) ELSE res

\* variant: the word still in the buffer when the loop ends is not emitted
FinalFlush_Missing(res, word) == res

\* after the loop: if current_word: result.append("".join(current_word))
FinalFlush(res, word) == FlushWord(res, word)

\* variant: a bare return, the caller receives None
EmptyResult_None == <<"None">>

\* return ""
EmptyResult == <<>>

\* variant: the separator is appended before the word is flushed
EndWord_Order(res, word, char) == FlushWord(Append(res, <<char>>), word)

\* variant: a separator equal to the piece just appended is skipped
EndWord_DedupSep(res, word, char) ==
    IF ~Truthy(word) /\ res # <<>> /\ res[Len(res)] = <<char>>
    THEN res
    ELSE Append(FlushWord(res, word), <<char>>)

\* the else-branch: flush the word, then result.append(char)
EndWord(res, word, char) == Append(FlushWord(res, word), <<char>>)

\* variant: " ".join(result)
RECURSIVE Join_Space(_)
Join_Space(pieces) ==
    IF pieces = <<>> THEN <<>>
    ELSE IF Len(pieces) = 1 THEN Head(pieces)
    ELSE Head(pieces) \o <<" ">> \o Join_Space(Tail(pieces))

\* variant: the iterator is advanced twice per iteration
NextPos_Skip(p) == p + 2

\* `for char in text`: the iterator yields the next character, one per step
NextPos(p) == p + 1

\* "".join(result)
RECURSIVE Join(_)
Join(pieces) ==
    IF pieces = <<>> THEN <<>> ELSE Head(pieces) \o Join(Tail(pieces))

(***************************************************************************)
(* The function as an operator                                             *)
(***************************************************************************)
\* one iteration of the for-loop on the local state st
LoopBody(st, char) ==
    IF isalnum(char)
    THEN IF CondRaises(st.current_word, char)
         THEN [st EXCEPT !.raised = TRUE]
         ELSE IF IsRepeat(st.current_word, char)
              THEN st
              ELSE [st EXCEPT !.current_word = KeepChar(@, char)]
    ELSE [st EXCEPT !.result = EndWord(st.result, st.current_word, char),
                    !.current_word = IF Truthy(@) THEN ClearWord(@) ELSE @]

RECURSIVE Scan(_, _)
Scan(st, s) ==
    IF s = <<>> \/ st.raised THEN st ELSE Scan(LoopBody(st, Head(s)), Tail(s))

\* value returned by remove_duplicate_letters(s); <<"IndexError">> if it raises
remove_duplicate_letters(s) ==
    IF s = <<>>
    THEN EmptyResult
    ELSE LET st == Scan([result |-> <<>>, current_word |-> <<>>,
                         raised |-> FALSE], s)
         IN  IF st.raised THEN <<"IndexError">>
             ELSE Join(FinalFlush(st.result, st.current_word))

(***************************************************************************)
(* The function as a state machine                                         *)
(***************************************************************************)
Init ==
    /\ text \in Inputs
    /\ pos = 0
    /\ result = <<>>
    /\ current_word = <<>>
    /\ pc = "call"
    /\ ret = <<>>
    /\ kept = {}
    /\ calls = <<>>
    /\ frames = <<>>
    /\ calc = <<>>
    /\ db = <<>>
    /\ last = <<>>
    /\ page = <<>>

\* if not text: return ""
ReturnEmpty ==
    /\ pc = "call"
    /\ text = <<>>
    /\ pc' = "done"
    /\ ret' = EmptyResult
    /\ UNCHANGED <<text, pos, result, current_word, kept>>
    /\ UNCHANGED <<concVars, calcVars, dbVars, uiVars>>

\* result = []; current_word = []
EnterLoop ==
    /\ pc = "call"
    /\ text # <<>>
    /\ result' = <<>>
    /\ current_word' = <<>>
    /\ pc' = "loop"
    /\ UNCHANGED <<text, pos, ret, kept>>
    /\ UNCHANGED <<concVars, calcVars, dbVars, uiVars>>

\* an iteration whose char is alphanumeric
AlnumStep ==
    /\ pc = "loop"
    /\ pos < Len(text)
    /\ LET char == text[pos + 1] IN
       /\ isalnum(char)
       /\ IF CondRaises(current_word, char)
          THEN /\ pc' = "error"
               /\ UNCHANGED <<pos, current_word, kept>>
          ELSE /\ pc' = "loop"
               /\ pos' = NextPos(pos)
               /\ IF IsRepeat(current_word, char)
                  THEN UNCHANGED <<current_word, kept>>
                  ELSE /\ current_word' = KeepChar(current_word, char)
                       /\ kept' = kept \cup {pos + 1}
    /\ UNCHANGED <<text, result, ret>>
    /\ UNCHANGED <<concVars, calcVars, dbVars, uiVars>>

\* an iteration whose char is not alphanumeric
SeparatorStep ==
    /\ pc = "loop"
    /\ pos < Len(text)
    /\ LET char == text[pos + 1] IN
       /\ ~isalnum(char)
       /\ result' = EndWord(result, current_word, char)
       /\ current_word' = IF Truthy(current_word)
                          THEN ClearWord(current_word)
                          ELSE current_word
       /\ kept' = kept \cup {pos + 1}
    /\ pos' = NextPos(pos)
    /\ UNCHANGED <<text, pc, ret>>
    /\ UNCHANGED <<concVars, calcVars, dbVars, uiVars>>

\* loop exhausted: flush the last word and return "".join(result)
Return ==
    /\ pc = "loop"
    /\ pos = Len(text)
    /\ result' = FinalFlush(result, current_word)
    /\ ret' = Join(result')
    /\ pc' = "done"
    /\ UNCHANGED <<text, pos, current_word, kept>>
    /\ UNCHANGED <<concVars, calcVars, dbVars, uiVars>>

Next == ReturnEmpty \/ EnterLoop \/ AlnumStep \/ SeparatorStep \/ Return

Spec == Init /\ [][Next]_vars

\* a call, once started, runs to its end: the interpreter keeps executing
FairSpec == Spec /\ WF_vars(Next)

TypeOK ==
    /\ text \in Inputs
    /\ pos \in 0..Len(text)
    /\ pc \in {"call", "loop", "done", "error"}
    /\ kept \subseteq 1..pos

\* the two renderings of the function agree
MachineIsFunction == pc = "done" => ret = remove_duplicate_letters(text)

(***************************************************************************)
(* Several invocations whose loop iterations interleave                    *)
(*                                                                         *)
(* Every invocation has its own argument and loop position.  The lists     *)
(* result and current_word are created by the invocation itself (result =  *)
(* [], current_word = []), so they live in the frame of that invocation.   *)
(***************************************************************************)
NumCalls == 2

Calls == 1..NumCalls

\* arguments of the interleaved invocations
ConcInputs ==
    { <<>>,
      <<"a","b","b","a">>,
      <<"h","e","l","l","o">>,
      <<"a","a","1","1"," ","b","b","2","2">> }

\* variant: the two lists are module-level objects, one frame for all calls
Frame_Shared(i) == 1

\* the frame holding the locals of invocation i
Frame(i) == i

NewFrame == [result |-> <<>>, current_word |-> <<>>, raised |-> FALSE]

\* some other invocation is inside its loop
OthersRunning(i) == \E j \in Calls \ {i} : calls[j].pc = "loop"

ConcInit ==
    /\ calls \in [Calls -> [text : ConcInputs, pos : {0}, pc : {"call"},
                            ret : {<<>>}, interleaved : {FALSE}]]
    /\ frames = [f \in Calls |-> NewFrame]
    /\ text = <<>>
    /\ pos = 0
    /\ result = <<>>
    /\ current_word = <<>>
    /\ pc = "idle"
    /\ ret = <<>>
    /\ kept = {}
    /\ calc = <<>>
    /\ db = <<>>
    /\ last = <<>>
    /\ page = <<>>

\* if not text: return ""
ConcReturnEmpty(i) ==
    /\ calls[i].pc = "call"
    /\ calls[i].text = <<>>
    /\ calls' = [calls EXCEPT ![i].pc = "done", ![i].ret = EmptyResult]
    /\ UNCHANGED <<frames, textVars, calcVars, dbVars, uiVars>>

\* result = []; current_word = []
ConcEnterLoop(i) ==
    /\ calls[i].pc = "call"
    /\ calls[i].text # <<>>
    /\ frames' = [frames EXCEPT ![Frame(i)] = NewFrame]
    /\ calls' = [calls EXCEPT ![i].pc = "loop"]
    /\ UNCHANGED <<textVars, calcVars, dbVars, uiVars>>

\* one iteration of the for-loop of invocation i
ConcLoopStep(i) ==
    /\ calls[i].pc = "loop"
    /\ calls[i].pos < Len(calls[i].text)
    /\ LET st == LoopBody(frames[Frame(i)], calls[i].text[calls[i].pos + 1]) IN
       /\ frames' = [frames EXCEPT ![Frame(i)] = st]
       /\ calls' = IF st.raised
                   THEN [calls EXCEPT ![i].pc = "error"]
                   ELSE [calls EXCEPT ![i].pos = NextPos(@),
                                      ![i].interleaved = @ \/ OthersRunning(i)]
    /\ UNCHANGED <<textVars, calcVars, dbVars, uiVars>>

\* loop exhausted: flush the last word and return "".join(result)
ConcReturn(i) ==
    /\ calls[i].pc = "loop"
    /\ calls[i].pos = Len(calls[i].text)
    /\ LET f == frames[Frame(i)]
           res == FinalFlush(f.result, f.current_word)
       IN  /\ frames' = [frames EXCEPT ![Frame(i)].result = res]
           /\ calls' = [calls EXCEPT ![i].pc = "done", ![i].ret = Join(res)]
    /\ UNCHANGED <<textVars, calcVars, dbVars, uiVars>>

ConcNext ==
    \E i \in Calls :
        \/ ConcReturnEmpty(i)
        \/ ConcEnterLoop(i)
        \/ ConcLoopStep(i)
        \/ ConcReturn(i)

ConcSpec == ConcInit /\ [][ConcNext]_vars

(***************************************************************************)
(* tdd/calculator/operations.py: add, subtract, multiply, percentage       *)
(*                                                                         *)
(* The arguments are Python ints (unbounded, no overflow).  The float that *)
(* int / int returns is modelled by the exact quotient as a fraction in    *)
(* lowest terms <<numerator, denominator>> with denominator > 0.           *)
(***************************************************************************)
CalcRange == 3

\* integer arguments of tests/test_operations.py
TestNumbers == {0, 2, 3, -2, -3, 4, -4, 5, -5, 10, 50, 100, 200, -200}

CalcArgs == (-CalcRange..CalcRange) \cup TestNumbers

CalcFunctions == {"add", "subtract", "multiply", "percentage"}

Abs(n) == IF n < 0 THEN -n ELSE n

RECURSIVE Gcd(_, _)
Gcd(m, n) == IF n = 0 THEN m ELSE Gcd(n, m % n)

\* n / d on ints: true division
TrueDiv(n, d) ==
    IF d = 0 THEN <<"ZeroDivisionError">>
    ELSE LET g == Gcd(Abs(n), Abs(d))
             sgn == IF d < 0 THEN -1 ELSE 1
         IN  <<sgn * (n \div g), sgn * (d \div g)>>

\* variant: the operands are exchanged
subtract_Swapped(a, b) == b - a

\* variant: percent is divided first, with floor division
percentage_FloorDivFirst(value, percent) == <<value * (percent \div 100), 1>>

\* return a + b
add(a, b) == a + b

\* return a - b
subtract(a, b) == a - b

\* return a * b
multiply(a, b) == a * b

\* return value * percent / 100
percentage(value, percent) == TrueDiv(value * percent, 100)

CalcInit ==
    /\ calc \in [fn : CalcFunctions, a : CalcArgs, b : CalcArgs,
                 pc : {"call"}, out : {0}]
    /\ calls = <<>>
    /\ frames = <<>>
    /\ text = <<>>
    /\ pos = 0
    /\ result = <<>>
    /\ current_word = <<>>
    /\ pc = "idle"
    /\ ret = <<>>
    /\ kept = {}
    /\ db = <<>>
    /\ last = <<>>
    /\ page = <<>>

CallAdd ==
    /\ calc.pc = "call"
    /\ calc.fn = "add"
    /\ calc' = [calc EXCEPT !.out = add(calc.a, calc.b), !.pc = "done"]
    /\ UNCHANGED <<textVars, concVars, dbVars, uiVars>>

CallSubtract ==
    /\ calc.pc = "call"
    /\ calc.fn = "subtract"
    /\ calc' = [calc EXCEPT !.out = subtract(calc.a, calc.b), !.pc = "done"]
    /\ UNCHANGED <<textVars, concVars, dbVars, uiVars>>

CallMultiply ==
    /\ calc.pc = "call"
    /\ calc.fn = "multiply"
    /\ calc' = [calc EXCEPT !.out = multiply(calc.a, calc.b), !.pc = "done"]
    /\ UNCHANGED <<textVars, concVars, dbVars, uiVars>>

CallPercentage ==
    /\ calc.pc = "call"
    /\ calc.fn = "percentage"
    /\ calc' = [calc EXCEPT !.out = percentage(calc.a, calc.b), !.pc = "done"]
    /\ UNCHANGED <<textVars, concVars, dbVars, uiVars>>

CalcNext == CallAdd \/ CallSubtract \/ CallMultiply \/ CallPercentage

CalcSpec == CalcInit /\ [][CalcNext]_vars

(***************************************************************************)
(* Reference notions used by the properties                                *)
(***************************************************************************)
\* the alphanumeric characters (letters and digits) among those the model uses
Alphanumeric == Letters \cup Digits

NotAlnum(c) == c \notin Alphanumeric

\* length of the longest alphanumeric prefix of s
RECURSIVE WordPrefixLen(_)
WordPrefixLen(s) ==
    IF s = <<>> \/ Head(s) \notin Alphanumeric THEN 0 ELSE 1 + WordPrefixLen(Tail(s))

\* every maximal run of identical adjacent characters of w replaced by one
RECURSIVE CollapseRuns(_)
CollapseRuns(w) ==
    IF Len(w) <= 1 THEN w
    ELSE IF w[1] = w[2] THEN CollapseRuns(Tail(w))
    ELSE <<w[1]>> \o CollapseRuns(Tail(w))

\* words collapsed one by one, separators left where they are
RECURSIVE Reference(_)
Reference(s) ==
    IF s = <<>> THEN <<>>
    ELSE LET n == WordPrefixLen(s) IN
         IF n = 0
         THEN <<Head(s)>> \o Reference(Tail(s))
         ELSE CollapseRuns(SubSeq(s, 1, n)) \o Reference(SubSeq(s, n + 1, Len(s)))

\* the words (maximal alphanumeric runs) of s, in order
RECURSIVE Words(_)
Words(s) ==
    IF s = <<>> THEN <<>>
    ELSE LET n == WordPrefixLen(s) IN
         IF n = 0
         THEN Words(Tail(s))
         ELSE <<SubSeq(s, 1, n)>> \o Words(SubSeq(s, n + 1, Len(s)))

\* the characters of s at the positions in K, from position i on, in order
RECURSIVE PickFrom(_, _, _)
PickFrom(s, K, i) ==
    IF i > Len(s) THEN <<>>
    ELSE (IF i \in K THEN <<s[i]>> ELSE <<>>) \o PickFrom(s, K, i + 1)

\* position i of s repeats the alphanumeric character just before it
RepeatsPrevious(s, i) == s[i] \in Alphanumeric /\ i > 1 /\ s[i - 1] = s[i]

\* number of characters of the output that come from positions 1..i
OutIndex(i) == Cardinality(kept \cap (1..i))

DifferOnlyInCase(c, d) == c # d /\ lower(c) = lower(d)

(***************************************************************************)
(* C1: the returned string equals the reference result: inside each word   *)
(* every maximal run of identical adjacent characters is replaced by one   *)
(* occurrence, and every non-alphanumeric character stays where it is.     *)
(***************************************************************************)
C1_EqualsReference == pc = "done" => ret = Reference(text)

C1_Witness ==
    /\ pc = "done"
    /\ Len(ret) < Len(text)
    /\ \E i \in 1..Len(text) : text[i] \notin Alphanumeric
    /\ Len(Words(text)) >= 2

(***************************************************************************)
(* C2: position i of the input is omitted from the output iff its          *)
(* character is alphanumeric, i > 0 (0-based) and the character before it  *)
(* is identical; every other position is kept, so "abba" gives "aba".      *)
(***************************************************************************)
C2_OmittedIffRepeatsPrevious ==
    pc = "done" =>
        /\ \A i \in 1..Len(text) : (i \notin kept) <=> RepeatsPrevious(text, i)
        /\ ret = PickFrom(text, kept, 1)
        /\ text = <<"a","b","b","a">> => ret = <<"a","b","a">>

C2_Witness ==
    /\ pc = "done"
    /\ \E i, j \in 1..Len(text) :
          /\ i + 1 < j
          /\ text[i] = text[j]
          /\ text[i] \in Alphanumeric
          /\ text[i + 1] # text[i]
          /\ j \in kept
    /\ \E i \in 1..Len(text) : i \notin kept

(***************************************************************************)
(* C3: idempotence: applying the function to its own result returns that   *)
(* result.                                                                 *)
(***************************************************************************)
C3_Idempotent == pc = "done" => remove_duplicate_letters(ret) = ret

C3_Witness ==
    /\ pc = "done"
    /\ ret # text
    /\ \E i \in 1..Len(ret) : ret[i] \notin Alphanumeric
    /\ \E i \in 1..Len(ret) : ret[i] \in Alphanumeric

(***************************************************************************)
(* C4: the non-alphanumeric characters of the output, in order and with    *)
(* multiplicity, are exactly those of the input, also when a separator is  *)
(* repeated consecutively.                                                 *)
(***************************************************************************)
C4_SeparatorsPreserved ==
    pc = "done" => SelectSeq(ret, NotAlnum) = SelectSeq(text, NotAlnum)

C4_Witness ==
    /\ pc = "done"
    /\ \E i \in 1..(Len(text) - 1) : text[i] \notin Alphanumeric /\ text[i + 1] = text[i]
    /\ \E i \in 1..Len(text) : text[i] \in Alphanumeric

(***************************************************************************)
(* C5: the output is never longer than the input.                          *)
(***************************************************************************)
C5_NotLonger == pc = "done" => Len(ret) <= Len(text)

C5_Witness ==
    /\ pc = "done"
    /\ Len(text) = MaxLen
    /\ Len(ret) = Len(text)
    /\ Len(result) >= 3

(***************************************************************************)
(* C6: the output never contains two adjacent characters that are equal    *)
(* and alphanumeric.                                                       *)
(***************************************************************************)
C6_NoAdjacentEqualAlnum ==
    pc = "done" =>
        \A i \in 1..(Len(ret) - 1) : ~(ret[i] \in Alphanumeric /\ ret[i] = ret[i + 1])

C6_Witness ==
    /\ pc = "done"
    /\ \E i \in 1..(Len(text) - 1) : text[i] \in Alphanumeric /\ text[i] = text[i + 1]
    /\ Len(ret) >= 2

(***************************************************************************)
(* C7: words are processed independently: for every split u + c + v of the *)
(* input at a non-alphanumeric c the result is f(u) + c + f(v); when u     *)
(* ends with the alphanumeric character v starts with, both occurrences    *)
(* are in the output, on either side of c.                                 *)
(***************************************************************************)
C7_SplitsAtSeparator ==
    pc = "done" =>
        \A k \in 1..Len(text) :
            text[k] \notin Alphanumeric =>
                /\ ret = remove_duplicate_letters(SubSeq(text, 1, k - 1))
                         \o <<text[k]>>
                         \o remove_duplicate_letters(SubSeq(text, k + 1, Len(text)))
                /\ (k > 1 /\ k < Len(text) /\ text[k - 1] \in Alphanumeric
                    /\ text[k - 1] = text[k + 1]) =>
                       /\ {k, k + 1} \subseteq kept
                       /\ OutIndex(k - 1) >= 1
                       /\ ret[OutIndex(k - 1)] = text[k - 1]
                       /\ ret[OutIndex(k - 1) + 1] = text[k]
                       /\ ret[OutIndex(k - 1) + 2] = text[k + 1]

C7_Witness ==
    /\ pc = "done"
    /\ \E k \in 2..(Len(text) - 1) :
          /\ text[k] \notin Alphanumeric
          /\ text[k - 1] \in Alphanumeric
          /\ text[k - 1] = text[k + 1]
          /\ k > 2
          /\ text[k - 2] = text[k - 1]

(***************************************************************************)
(* C8: every word of the input yields a non-empty word of the output that  *)
(* starts with the same character, so input and output have the same       *)
(* number of words.                                                        *)
(***************************************************************************)
C8_WordsAndFirstCharsKept ==
    pc = "done" =>
        LET win == Words(text)
            wout == Words(ret)
        IN  /\ Len(wout) = Len(win)
            /\ \A j \in 1..Len(win) :
                  /\ j <= Len(wout)
                  /\ wout[j] # <<>>
                  /\ wout[j][1] = win[j][1]

C8_Witness ==
    /\ pc = "done"
    /\ Len(Words(text)) >= 2
    /\ \E j \in 1..Len(Words(text)) : Len(Words(text)[j]) = 1
    /\ Len(ret) < Len(text)

(***************************************************************************)
(* C9: the function is total: for every input (the empty string, only      *)
(* separators, one long word included) no error state is ever reached and  *)
(* the scan reaches its end and returns a string.                          *)
(***************************************************************************)
C9_Total ==
    /\ [](pc # "error")
    /\ <>(/\ pc = "done"
          /\ pos = Len(text)
          /\ \A i \in 1..Len(ret) : \E j \in 1..Len(text) : ret[i] = text[j])

C9_Witness ==
    /\ pc = "done"
    /\ Len(text) = MaxLen
    /\ \A i \in 1..Len(text) : text[i] \in Alphanumeric
    /\ Len(ret) = 1

(***************************************************************************)
(* C10: comparison is exact character equality: two adjacent letters that  *)
(* differ only in case are not collapsed (both are in the output, next to  *)
(* each other), two adjacent identical letters are collapsed; "HeLLo"      *)
(* gives "HeLo" and "Ll" is unchanged.                                     *)
(***************************************************************************)
C10_CaseSensitive ==
    pc = "done" =>
        /\ \A i \in 1..(Len(text) - 1) :
              /\ DifferOnlyInCase(text[i], text[i + 1]) =>
                    /\ i + 1 \in kept
                    /\ OutIndex(i) >= 1
                    /\ ret[OutIndex(i)] = text[i]
                    /\ ret[OutIndex(i) + 1] = text[i + 1]
              /\ (text[i] \in Letters /\ text[i] = text[i + 1]) =>
                    i + 1 \notin kept
        /\ text = <<"H","e","L","L","o">> => ret = <<"H","e","L","o">>
        /\ text = <<"L","l">> => ret = <<"L","l">>

C10_Witness ==
    /\ pc = "done"
    /\ \E i \in 1..(Len(text) - 2) :
          /\ text[i] = text[i + 1]
          /\ DifferOnlyInCase(text[i + 1], text[i + 2])
    /\ Len(ret) = Len(text) - 1

\* a letter next to a digit, in either order
LetterDigitPair(c, d) ==
    \/ c \in Letters /\ d \in Digits
    \/ c \in Digits /\ d \in Letters

\* every character of w is the character c
AllCopiesOf(w, c) == \A i \in 1..Len(w) : w[i] = c

\* a can be obtained from b by deleting characters
RECURSIVE IsSubsequence(_, _)
IsSubsequence(a, b) ==
    IF a = <<>> THEN TRUE
    ELSE IF b = <<>> THEN FALSE
    ELSE IF Head(a) = Head(b) THEN IsSubsequence(Tail(a), Tail(b))
    ELSE IsSubsequence(a, Tail(b))

(***************************************************************************)
(* C11: digits are alphanumeric: a run of identical adjacent digits is     *)
(* collapsed to one digit; a digit next to a letter does not end the word  *)
(* (both are in the word buffer together) and is never collapsed with the  *)
(* letter (both are in the output, next to each other); "aa11 bb22" gives  *)
(* "a1 b2".                                                                *)
(***************************************************************************)
C11_DigitsAreAlphanumeric ==
    /\ pc = "loop" =>
          \A i \in 1..(pos - 1) :
              \* the word holding text[i] is still being built at pos
              (/\ LetterDigitPair(text[i], text[i + 1])
               /\ \A j \in (i + 1)..pos : text[j] \in Alphanumeric) =>
                  \E k \in 1..(Len(current_word) - 1) :
                      /\ current_word[k] = text[i]
                      /\ current_word[k + 1] = text[i + 1]
    /\ pc = "done" =>
          /\ \A i \in 1..(Len(text) - 1) :
                /\ (text[i] \in Digits /\ text[i] = text[i + 1]) =>
                       i + 1 \notin kept
                /\ LetterDigitPair(text[i], text[i + 1]) =>
                       /\ i + 1 \in kept
                       /\ OutIndex(i) >= 1
                       /\ ret[OutIndex(i)] = text[i]
                       /\ ret[OutIndex(i) + 1] = text[i + 1]
          /\ text = <<"a","a","1","1"," ","b","b","2","2">> =>
                 ret = <<"a","1"," ","b","2">>
          /\ (text # <<>> /\ \A i \in 1..Len(text) : text[i] = "1") =>
                 ret = <<"1">>

C11_Witness ==
    /\ pc = "done"
    /\ \E i \in 1..(Len(text) - 2) :
          /\ text[i] \in Letters
          /\ text[i + 1] \in Digits
          /\ text[i + 2] = text[i + 1]
    /\ Len(ret) < Len(text)

(***************************************************************************)
(* C12: an input without two adjacent identical alphanumeric characters is *)
(* returned unchanged.                                                     *)
(***************************************************************************)
C12_FixedPoints ==
    (/\ pc = "done"
     /\ \A i \in 1..(Len(text) - 1) :
            ~(text[i] \in Alphanumeric /\ text[i] = text[i + 1])) => ret = text

C12_Witness ==
    /\ pc = "done"
    /\ Len(text) >= 3
    /\ ret = text
    /\ \E i \in 1..(Len(text) - 2) :
          text[i] \in Alphanumeric /\ text[i + 2] = text[i]
    /\ \E i \in 1..Len(text) : text[i] \notin Alphanumeric

(***************************************************************************)
(* C13: a word made of n >= 1 copies of one alphanumeric character is      *)
(* reduced to exactly one copy of it; "aaaa bbbb" gives "a b".             *)
(***************************************************************************)
C13_RunWordBecomesOneChar ==
    pc = "done" =>
        /\ \A j \in 1..Len(Words(text)) :
              AllCopiesOf(Words(text)[j], Words(text)[j][1]) =>
                  /\ j <= Len(Words(ret))
                  /\ Words(ret)[j] = <<Words(text)[j][1]>>
        /\ text = <<"a","a","a","a"," ","b","b","b","b">> =>
               ret = <<"a"," ","b">>

C13_Witness ==
    /\ pc = "done"
    /\ Len(Words(text)) = 1
    /\ Len(Words(text)[1]) = MaxLen
    /\ AllCopiesOf(text, text[1])
    /\ Len(ret) = 1

(***************************************************************************)
(* C14: the empty input returns the empty output (through the early        *)
(* return, without entering the loop).                                     *)
(***************************************************************************)
C14_EmptyGivesEmpty ==
    (pc = "done" /\ text = <<>>) => (ret = <<>> /\ pos = 0 /\ result = <<>>)

C14_Witness == pc = "done" /\ text = <<>> /\ ret = <<>>

(***************************************************************************)
(* C18: for every non-empty input the output is non-empty and has the      *)
(* same first and the same last character as the input; a word that ends   *)
(* the input without a trailing separator is emitted.                      *)
(***************************************************************************)
C18_EndsPreserved ==
    (pc = "done" /\ text # <<>>) =>
        /\ ret # <<>>
        /\ ret[1] = text[1]
        /\ ret[Len(ret)] = text[Len(text)]
        /\ text[Len(text)] \in Alphanumeric =>
               /\ Words(ret) # <<>>
               /\ LET w == Words(text)[Len(Words(text))]
                      v == Words(ret)[Len(Words(ret))]
                  IN  v = CollapseRuns(w)

C18_Witness ==
    /\ pc = "done"
    /\ Len(text) >= 3
    /\ text[Len(text)] \in Alphanumeric
    /\ text[Len(text) - 1] = text[Len(text)]
    /\ \E i \in 1..Len(text) : text[i] \notin Alphanumeric

(***************************************************************************)
(* C19: loop invariant: after the loop has consumed a prefix p of the      *)
(* input, the joined result followed by the word buffer equals the         *)
(* function's result on p; the buffer holds only alphanumeric characters,  *)
(* no two adjacent ones equal; and the buffer is empty right after a       *)
(* non-alphanumeric character was consumed.                                *)
(***************************************************************************)
C19_LoopInvariant ==
    pc = "loop" =>
        /\ Join(result) \o current_word
               = remove_duplicate_letters(SubSeq(text, 1, pos))
        /\ \A k \in 1..Len(current_word) : current_word[k] \in Alphanumeric
        /\ \A k \in 1..(Len(current_word) - 1) :
               current_word[k] # current_word[k + 1]
        /\ (pos >= 1 /\ text[pos] \notin Alphanumeric) => current_word = <<>>

C19_Witness ==
    /\ pc = "loop"
    /\ pos = 3
    /\ text[1] \in Alphanumeric
    /\ text[2] = text[1]
    /\ text[3] \notin Alphanumeric
    /\ current_word = <<>>
    /\ Len(result) = 2

(***************************************************************************)
(* C20: the output is a subsequence of the input: it is obtained by        *)
(* deleting characters only, nothing is inserted, altered or reordered.    *)
(***************************************************************************)
C20_OutputIsSubsequence ==
    pc = "done" =>
        /\ IsSubsequence(ret, text)
        /\ \A i \in 1..Len(ret) : \E j \in i..Len(text) : ret[i] = text[j]

C20_Witness ==
    /\ pc = "done"
    /\ Len(ret) + 1 < Len(text)
    /\ \E i \in 2..(Len(ret) - 1) : ret[i] \notin Alphanumeric

(***************************************************************************)
(* C15: invocations share no state: with the loop iterations of several    *)
(* invocations interleaved in any order, every invocation returns the      *)
(* result it returns when run alone, and invocations on the same input     *)
(* return equal results.                                                   *)
(***************************************************************************)
C15_InvocationsIndependent ==
    /\ \A i \in Calls :
          /\ calls[i].pc # "error"
          /\ calls[i].pc = "done" =>
                 /\ calls[i].ret = remove_duplicate_letters(calls[i].text)
                 /\ calls[i].ret = Reference(calls[i].text)
    /\ \A i, j \in Calls :
          (/\ calls[i].pc = "done"
           /\ calls[j].pc = "done"
           /\ calls[i].text = calls[j].text) => calls[i].ret = calls[j].ret

C15_Witness ==
    /\ \A i \in Calls : calls[i].pc = "done" /\ calls[i].interleaved
    /\ calls[1].text # calls[2].text
    /\ calls[1].ret # calls[1].text
    /\ calls[2].ret # calls[2].text

Sign(n) == IF n > 0 THEN 1 ELSE IF n < 0 THEN -1 ELSE 0

Finished(fn) == calc.pc = "done" /\ calc.fn = fn

(***************************************************************************)
(* C16: for integers a, b of either sign, add(a, b) is the sum, subtract   *)
(* (a, b) the difference and multiply(a, b) the product; add(a, 0) = a,    *)
(* subtract(a, 0) = a, multiply(a, 0) = 0.                                 *)
(***************************************************************************)
C16_Arithmetic ==
    /\ Finished("add") =>
          /\ calc.out - calc.b = calc.a
          /\ calc.out - calc.a = calc.b
          /\ calc.b = 0 => calc.out = calc.a
          /\ (calc.a = 2 /\ calc.b = 3) => calc.out = 5
          /\ (calc.a = -2 /\ calc.b = -3) => calc.out = -5
          /\ (calc.a = 10 /\ calc.b = -3) => calc.out = 7
    /\ Finished("subtract") =>
          /\ calc.out + calc.b = calc.a
          /\ calc.b = 0 => calc.out = calc.a
          /\ (calc.a = 3 /\ calc.b = 5) => calc.out = -2
          /\ (calc.a = -5 /\ calc.b = -3) => calc.out = -2
    /\ Finished("multiply") =>
          /\ calc.b # 0 =>
                 /\ Abs(calc.out) % Abs(calc.b) = 0
                 /\ Abs(calc.out) \div Abs(calc.b) = Abs(calc.a)
          /\ calc.a # 0 =>
                 /\ Abs(calc.out) % Abs(calc.a) = 0
                 /\ Abs(calc.out) \div Abs(calc.a) = Abs(calc.b)
          /\ calc.b = 0 => calc.out = 0
          /\ Sign(calc.out) = Sign(calc.a) * Sign(calc.b)
          /\ (calc.a = -4 /\ calc.b = 3) => calc.out = -12
          /\ (calc.a = -4 /\ calc.b = -3) => calc.out = 12

C16_Witness ==
    /\ Finished("subtract")
    /\ calc.a < 0
    /\ calc.b < calc.a
    /\ calc.out > 0

(***************************************************************************)
(* C17: for integers value and percent, percentage(value, percent) is the  *)
(* quotient of value * percent by 100; percentage(value, 0) = 0,           *)
(* percentage(value, 100) = value, and for percent > 0 the result has the  *)
(* sign of value.                                                          *)
(***************************************************************************)
C17_Percentage ==
    Finished("percentage") =>
        /\ Len(calc.out) = 2
        /\ calc.out[2] > 0
        /\ Gcd(Abs(calc.out[1]), calc.out[2]) = 1
        /\ calc.out[1] * 100 = calc.a * calc.b * calc.out[2]
        /\ calc.b = 0 => calc.out = <<0, 1>>
        /\ calc.b = 100 => calc.out = <<calc.a, 1>>
        /\ calc.b > 0 => Sign(calc.out[1]) = Sign(calc.a)
        /\ (calc.a = 200 /\ calc.b = 10) => calc.out = <<20, 1>>
        /\ (calc.a = -200 /\ calc.b = 10) => calc.out = <<-20, 1>>

C17_Witness ==
    /\ Finished("percentage")
    /\ calc.a < 0
    /\ calc.b > 0
    /\ calc.b < 100
    /\ calc.out[2] > 1

(***************************************************************************)
(* C21: the scan terminates: every loop step consumes exactly the next     *)
(* character (the position grows by one, left to right, skipped repeats    *)
(* included), and the final flush and return are reached when exactly      *)
(* len(s) characters have been consumed, for every input s.                *)
(***************************************************************************)
C21_ScanTerminates ==
    /\ [][pc = "loop" /\ pc' = "loop" => pos' = pos + 1]_vars
    /\ [][pc = "loop" /\ pc' = "done" => pos = Len(text) /\ pos' = pos]_vars
    /\ <>(pc = "done" /\ (text # <<>> => pos = Len(text)))

C21_Witness ==
    /\ pc = "done"
    /\ Len(text) = MaxLen
    /\ pos = MaxLen
    /\ kept # 1..pos
    /\ \E i \in 1..Len(text) : text[i] \notin Alphanumeric

(***************************************************************************)
(* The address database: lab2/database/models.py and db_manager.py         *)
(*                                                                         *)
(* A database is a record of four tables, each a set of rows.  Every       *)
(* DatabaseManager method is an operator from the database it finds to the *)
(* database it leaves, the outcome (returned or raised), the value         *)
(* returned and the session calls made by get_session.                     *)
(***************************************************************************)
MaxId == 2
MaxRows == 2

\* Python None in a str column or attribute
None == "None"

\* Python None as the id of an object that was never stored (Country())
NoId == 0

\* Python None where a model object is expected
NoRow == <<>>

Ids == 1..MaxId

Tables == {"country", "region", "city", "address"}

Names == {"A", "B"}

\* Country / Region / City / Address objects a caller passes in, with the
\* ids and the foreign keys taken from the given sets
CountryObjects(ids) == [id : ids, name : Names \cup {None}, code : {None, "X"}]

RegionObjects(ids, parents) == [id : ids, country_id : parents, name : Names]

CityObjects(ids, parents) ==
    { [id |-> i, region_id |-> p, name |-> n[1], postal_code |-> n[2]] :
        i \in ids, p \in parents, n \in {<<"A", None>>, <<"B", "P">>} }

AddressObjects(ids, parents) ==
    { [id |-> i, city_id |-> p, street |-> n[1], house |-> n[2],
       apartment |-> n[3], client_name |-> n[4]] :
        i \in ids, p \in parents,
        n \in {<<"A", None, None, None>>, <<"B", "1", "2", "C">>} }

Objects(t, ids, parents) ==
    CASE t = "country" -> CountryObjects(ids)
      [] t = "region" -> RegionObjects(ids, parents)
      [] t = "city" -> CityObjects(ids, parents)
      [] t = "address" -> AddressObjects(ids, parents)

\* every object with ids and foreign keys up to MaxId
InputsOf(t) == Objects(t, Ids, Ids)

\* Base.metadata.create_all on a new file: four empty tables
EmptyDb == [country |-> {}, region |-> {}, city |-> {}, address |-> {}]

TotalRows(d) ==
    Cardinality(d.country) + Cardinality(d.region)
        + Cardinality(d.city) + Cardinality(d.address)

RowIds(rows) == {r.id : r \in rows}

\* the table a foreign key of table t refers to
ParentTable(t) ==
    CASE t = "region" -> "country"
      [] t = "city" -> "region"
      [] t = "address" -> "city"

\* the foreign key column of a row of table t
ParentId(t, row) ==
    CASE t = "region" -> row.country_id
      [] t = "city" -> row.region_id
      [] t = "address" -> row.city_id

\* variant: the new id is the number of rows plus one
NextId_Count(rows) == Cardinality(rows) + 1

\* INTEGER PRIMARY KEY without AUTOINCREMENT: the largest rowid plus one
NextId(rows) ==
    IF rows = {} THEN 1
    ELSE (CHOOSE m \in RowIds(rows) : \A i \in RowIds(rows) : i <= m) + 1

\* the ids a caller may name: those of the rows, and one that is not there
KnownOrNew(rows) == RowIds(rows) \cup {NextId(rows)}

\* the objects a caller passes to a method of table t in database d
CallerObjects(d, t) ==
    Objects(t, KnownOrNew(d[t]),
            IF t = "country" THEN {NoId} ELSE KnownOrNew(d[ParentTable(t)]))

\* session.get(Model, id): the row with that primary key, or None
Get(rows, id) ==
    IF \E r \in rows : r.id = id
    THEN CHOOSE r \in rows : r.id = id
    ELSE NoRow

\* nullable=False columns
NotNullViolated(d) ==
    \/ \E c \in d.country : c.name = None
    \/ \E r \in d.region : r.name = None \/ r.country_id = NoId
    \/ \E c \in d.city : c.name = None \/ c.region_id = NoId
    \/ \E a \in d.address : a.street = None \/ a.city_id = NoId

\* variant: only the country name is declared unique
UniqueViolated_NameOnly(d) ==
    \E c1, c2 \in d.country : c1 # c2 /\ c1.name = c2.name

\* unique=True on country.name and country.code (NULLs are distinct in
\* SQLite), uq_region_country_name, uq_city_region_name
UniqueViolated(d) ==
    \/ \E c1, c2 \in d.country :
          /\ c1 # c2
          /\ \/ c1.name = c2.name
             \/ c1.code # None /\ c1.code = c2.code
    \/ \E r1, r2 \in d.region :
          r1 # r2 /\ r1.country_id = r2.country_id /\ r1.name = r2.name
    \/ \E c1, c2 \in d.city :
          c1 # c2 /\ c1.region_id = c2.region_id /\ c1.name = c2.name

\* the primary key of every table
PrimaryKeyViolated(d) ==
    \E t \in Tables : \E r1, r2 \in d[t] : r1 # r2 /\ r1.id = r2.id

\* SQLite checks a FOREIGN KEY clause only on a connection that has issued
\* PRAGMA foreign_keys = ON; the engine is created without it
ForeignKeyViolated(d) == FALSE

\* the flush of the session raises sqlalchemy.exc.IntegrityError
IntegrityError(d) ==
    \/ NotNullViolated(d)
    \/ UniqueViolated(d)
    \/ PrimaryKeyViolated(d)
    \/ ForeignKeyViolated(d)

\* variant: the commit is written in the finally clause
get_session_CommitAlways(d, blk) ==
    [db |-> blk.work,
     outcome |-> IF blk.raised \/ IntegrityError(blk.work)
                 THEN "raised" ELSE "returned",
     ok |-> blk.ok, id |-> blk.id,
     events |-> <<"commit", "close">>]

\* with self.get_session() as session: <blk>.  blk.work is the database as
\* the session sees it when the block ends, blk.raised says that the block
\* raised; changes that the block did not flush are flushed by the commit.
get_session(d, blk) ==
    IF blk.raised
    THEN [db |-> d, outcome |-> "raised", ok |-> FALSE, id |-> NoId,
          events |-> <<"rollback", "close">>]
    ELSE IF IntegrityError(blk.work)
         THEN [db |-> d, outcome |-> "raised", ok |-> FALSE, id |-> NoId,
               events |-> <<"commit", "rollback", "close">>]
         ELSE [db |-> blk.work, outcome |-> "returned", ok |-> blk.ok,
               id |-> blk.id, events |-> <<"commit", "close">>]

\* a block that made no change and returned ok
Unchanged(d, ok) == [work |-> d, raised |-> FALSE, ok |-> ok, id |-> NoId]

\* session.add(new); session.flush(); return new.id
AddBlock(d, t, new) ==
    LET work == [d EXCEPT ![t] = @ \cup {new}] IN
    IF IntegrityError(work)
    THEN [work |-> d, raised |-> TRUE, ok |-> FALSE, id |-> NoId]
    ELSE [work |-> work, raised |-> FALSE, ok |-> FALSE, id |-> new.id]

\* variant: a record that is not found is stored as a new one
UpdateBlock_Upsert(d, t, id, changed) ==
    [work |-> [d EXCEPT ![t] = {r \in @ : r.id # id} \cup {changed}],
     raised |-> FALSE, ok |-> TRUE, id |-> NoId]

\* existing = session.get(...); if existing: <assign>; return True
\* return False
UpdateBlock(d, t, id, changed) ==
    IF Get(d[t], id) # NoRow
    THEN [work |-> [d EXCEPT ![t] = (@ \ {Get(d[t], id)}) \cup {changed}],
          raised |-> FALSE, ok |-> TRUE, id |-> NoId]
    ELSE Unchanged(d, FALSE)

\* the rows of table t whose foreign key is one of the ids
ChildrenOf(d, t, ids) == {r \in d[t] : ParentId(t, r) \in ids}

\* variant: the object is never marked as deleted
Cascade_Nothing(d, t, id) == d

\* session.delete(obj) with cascade="all, delete-orphan" on regions, cities
\* and addresses: the unit of work deletes the loaded children as well
Cascade(d, t, id) ==
    LET regions == IF t = "country" THEN ChildrenOf(d, "region", {id})
                   ELSE IF t = "region" THEN {Get(d.region, id)} ELSE {}
        cities == IF t \in {"country", "region"}
                  THEN ChildrenOf(d, "city", RowIds(regions))
                  ELSE IF t = "city" THEN {Get(d.city, id)} ELSE {}
        addresses == IF t \in {"country", "region", "city"}
                     THEN ChildrenOf(d, "address", RowIds(cities))
                     ELSE {Get(d.address, id)}
    IN  [country |-> IF t = "country" THEN d.country \ {Get(d.country, id)}
                     ELSE d.country,
         region |-> d.region \ regions,
         city |-> d.city \ cities,
         address |-> d.address \ addresses]

\* obj = session.get(...); if obj: session.delete(obj); return True
\* return False
DeleteBlock(d, t, id) ==
    IF Get(d[t], id) # NoRow
    THEN [work |-> Cascade(d, t, id), raised |-> FALSE, ok |-> TRUE,
          id |-> NoId]
    ELSE Unchanged(d, FALSE)

\* Country(name=country.name, code=country.code), id set by the flush
NewCountry(d, country) ==
    [id |-> NextId(d.country), name |-> country.name, code |-> country.code]

NewRegion(d, region) ==
    [id |-> NextId(d.region), country_id |-> region.country_id,
     name |-> region.name]

NewCity(d, city) ==
    [id |-> NextId(d.city), region_id |-> city.region_id, name |-> city.name,
     postal_code |-> city.postal_code]

NewAddress(d, address) ==
    [id |-> NextId(d.address), city_id |-> address.city_id,
     street |-> address.street, house |-> address.house,
     apartment |-> address.apartment, client_name |-> address.client_name]

add_country(d, country) ==
    get_session(d, AddBlock(d, "country", NewCountry(d, country)))

add_region(d, region) ==
    get_session(d, AddBlock(d, "region", NewRegion(d, region)))

add_city(d, city) ==
    get_session(d, AddBlock(d, "city", NewCity(d, city)))

add_address(d, address) ==
    get_session(d, AddBlock(d, "address", NewAddress(d, address)))

\* existing.name = country.name; existing.code = country.code
update_country(d, country) ==
    get_session(d, UpdateBlock(d, "country", country.id,
        [id |-> country.id, name |-> country.name, code |-> country.code]))

update_region(d, region) ==
    get_session(d, UpdateBlock(d, "region", region.id,
        [id |-> region.id, country_id |-> region.country_id,
         name |-> region.name]))

update_city(d, city) ==
    get_session(d, UpdateBlock(d, "city", city.id,
        [id |-> city.id, region_id |-> city.region_id, name |-> city.name,
         postal_code |-> city.postal_code]))

update_address(d, address) ==
    get_session(d, UpdateBlock(d, "address", address.id,
        [id |-> address.id, city_id |-> address.city_id,
         street |-> address.street, house |-> address.house,
         apartment |-> address.apartment,
         client_name |-> address.client_name]))

delete_country(d, country_id) ==
    get_session(d, DeleteBlock(d, "country", country_id))

delete_region(d, region_id) ==
    get_session(d, DeleteBlock(d, "region", region_id))

delete_city(d, city_id) ==
    get_session(d, DeleteBlock(d, "city", city_id))

delete_address(d, address_id) ==
    get_session(d, DeleteBlock(d, "address", address_id))

\* the copy get_*_by_id returns (the columns; the cached display names of
\* the parents are left out), or None
get_country_by_id(d, country_id) ==
    LET c == Get(d.country, country_id) IN
    IF c # NoRow THEN [id |-> c.id, name |-> c.name, code |-> c.code]
    ELSE NoRow

get_region_by_id(d, region_id) ==
    LET r == Get(d.region, region_id) IN
    IF r # NoRow
    THEN [id |-> r.id, country_id |-> r.country_id, name |-> r.name]
    ELSE NoRow

get_city_by_id(d, city_id) ==
    LET c == Get(d.city, city_id) IN
    IF c # NoRow
    THEN [id |-> c.id, region_id |-> c.region_id, name |-> c.name,
          postal_code |-> c.postal_code]
    ELSE NoRow

get_address_by_id(d, address_id) ==
    LET a == Get(d.address, address_id) IN
    IF a # NoRow
    THEN [id |-> a.id, city_id |-> a.city_id, street |-> a.street,
          house |-> a.house, apartment |-> a.apartment,
          client_name |-> a.client_name]
    ELSE NoRow

\* the method of each table, by table name
AddTo(d, t, obj) ==
    CASE t = "country" -> add_country(d, obj)
      [] t = "region" -> add_region(d, obj)
      [] t = "city" -> add_city(d, obj)
      [] t = "address" -> add_address(d, obj)

UpdateIn(d, t, obj) ==
    CASE t = "country" -> update_country(d, obj)
      [] t = "region" -> update_region(d, obj)
      [] t = "city" -> update_city(d, obj)
      [] t = "address" -> update_address(d, obj)

DeleteFrom(d, t, id) ==
    CASE t = "country" -> delete_country(d, id)
      [] t = "region" -> delete_region(d, id)
      [] t = "city" -> delete_city(d, id)
      [] t = "address" -> delete_address(d, id)

GetById(d, t, id) ==
    CASE t = "country" -> get_country_by_id(d, id)
      [] t = "region" -> get_region_by_id(d, id)
      [] t = "city" -> get_city_by_id(d, id)
      [] t = "address" -> get_address_by_id(d, id)

(***************************************************************************)
(* DatabaseManager as a state machine: one call per step                   *)
(***************************************************************************)
\* the file may be new (create_all made the tables) or left by earlier runs
DatabasesAtStart == {EmptyDb}

NoCall == [op |-> "none", outcome |-> "returned", ok |-> FALSE]

\* the record of a call: the kind of method called and how it ended
Called(op, r) == [op |-> op, outcome |-> r.outcome, ok |-> r.ok]

DbInit ==
    /\ db \in DatabasesAtStart
    /\ last = NoCall
    /\ page = <<>>
    /\ calc = <<>>
    /\ calls = <<>>
    /\ frames = <<>>
    /\ text = <<>>
    /\ pos = 0
    /\ result = <<>>
    /\ current_word = <<>>
    /\ pc = "idle"
    /\ ret = <<>>
    /\ kept = {}

\* add_country / add_region / add_city / add_address
DbAdd(t) ==
    /\ \E obj \in CallerObjects(db, t) :
          /\ obj.id = NextId(db[t])
          /\ LET r == AddTo(db, t, obj) IN
             /\ r.outcome = "returned" =>
                   TotalRows(r.db) <= MaxRows /\ r.id <= MaxId
             /\ db' = r.db
             /\ last' = Called("add", r)
    /\ UNCHANGED <<textVars, concVars, calcVars, uiVars>>

\* update_country / update_region / update_city / update_address
DbUpdate(t) ==
    /\ \E obj \in CallerObjects(db, t) :
          LET r == UpdateIn(db, t, obj) IN
          /\ db' = r.db
          /\ last' = Called("update", r)
    /\ UNCHANGED <<textVars, concVars, calcVars, uiVars>>

\* delete_country / delete_region / delete_city / delete_address
DbDelete(t) ==
    /\ \E id \in KnownOrNew(db[t]) :
          LET r == DeleteFrom(db, t, id) IN
          /\ db' = r.db
          /\ last' = Called("delete", r)
    /\ UNCHANGED <<textVars, concVars, calcVars, uiVars>>

DbNext == \E t \in Tables : DbAdd(t) \/ DbUpdate(t) \/ DbDelete(t)

DbSpec == DbInit /\ [][DbNext]_vars

(***************************************************************************)
(* Notions the database claims are stated with                             *)
(***************************************************************************)
\* the blocks DatabaseManager runs inside get_session on database d
Blocks(d) ==
    UNION { { AddBlock(d, t, obj) : obj \in InputsOf(t) }
            \cup { UpdateBlock(d, t, obj.id, obj) : obj \in InputsOf(t) }
            \cup { DeleteBlock(d, t, i) : i \in Ids } : t \in Tables }

\* no two countries share a name or a non-null code, no two regions of a
\* country share a name, no two cities of a region share a name
NoDuplicates(d) ==
    /\ \A c1, c2 \in d.country :
          c1.id # c2.id =>
             /\ c1.name # c2.name
             /\ c1.code = None \/ c2.code = None \/ c1.code # c2.code
    /\ \A r1, r2 \in d.region :
          r1.id # r2.id => r1.country_id # r2.country_id \/ r1.name # r2.name
    /\ \A c1, c2 \in d.city :
          c1.id # c2.id => c1.region_id # c2.region_id \/ c1.name # c2.name

\* every required column has a value
RequiredPresent(d) ==
    /\ \A c \in d.country : c.name # None
    /\ \A r \in d.region : r.name # None /\ r.country_id # NoId
    /\ \A c \in d.city : c.name # None /\ c.region_id # NoId
    /\ \A a \in d.address : a.street # None /\ a.city_id # NoId

\* database d with the row of table t that has obj's id replaced by obj
\* (added when there is none)
WithRow(d, t, obj) == [d EXCEPT ![t] = {r \in @ : r.id # obj.id} \cup {obj}]

\* the objects passed to an add: built by the caller, their id not yet set
NewInputsOf(t) == Objects(t, {NoId}, Ids)

\* obj as it would be stored by an add: under the next free id
AsNew(d, t, obj) ==
    [obj EXCEPT !.id = IF d[t] = {} THEN 1
                       ELSE 1 + CHOOSE m \in RowIds(d[t]) :
                                   \A i \in RowIds(d[t]) : i <= m]

(***************************************************************************)
(* C22: get_session commits exactly when the block finishes without an     *)
(* exception; when the block or the commit raises it rolls back, nothing   *)
(* of the block is persisted and the exception reaches the caller; the     *)
(* session is closed last in both cases.  The step of the database made by *)
(* a call that raised leaves it unchanged.                                 *)
(***************************************************************************)
C22_CommitOrRollback ==
    /\ [](\A blk \in Blocks(db) :
            LET r == get_session(db, blk)
                committed == \E k \in 1..Len(r.events) : r.events[k] = "commit"
                rolledBack == \E k \in 1..Len(r.events) : r.events[k] = "rollback"
                commitRaises == ~blk.raised
                                /\ ~(NoDuplicates(blk.work) /\ RequiredPresent(blk.work))
            IN  /\ committed <=> ~blk.raised
                /\ (blk.raised \/ commitRaises) <=> r.outcome = "raised"
                /\ r.outcome = "raised" <=> rolledBack
                /\ r.outcome = "raised" => r.db = db
                /\ r.outcome = "returned" => r.db = blk.work
                /\ r.events # <<>> /\ r.events[Len(r.events)] = "close"
                /\ \A k \in 1..(Len(r.events) - 1) : r.events[k] # "close")
    /\ [][last'.outcome = "raised" => db' = db]_vars

\* an update that found its record and broke uniqueness: the commit raised
C22_Witness ==
    /\ last.op = "update"
    /\ last.outcome = "raised"
    /\ TotalRows(db) = MaxRows

C25_DeleteOnce ==
    \A t \in Tables : \A i \in 1..(MaxId + 1) :
        LET r == DeleteFrom(db, t, i)
            again == DeleteFrom(r.db, t, i)
        IN  /\ r.outcome = "returned"
            /\ r.ok <=> i \in RowIds(db[t])
            /\ r.ok => /\ GetById(r.db, t, i) = NoRow
                       /\ again.outcome = "returned"
                       /\ ~again.ok
                       /\ again.db = r.db
            /\ ~r.ok => r.db = db

\* a delete returned True and left another record behind
C25_Witness ==
    /\ last.op = "delete"
    /\ last.outcome = "returned"
    /\ last.ok
    /\ TotalRows(db) = MaxRows - 1

(***************************************************************************)
(* C26: referential integrity of country -> region -> city -> address      *)
(* after any sequence of add / update / delete calls: every region refers  *)
(* to an existing country, every city to an existing region, every address *)
(* to an existing city.                                                    *)
(***************************************************************************)
C26_ReferentialIntegrity ==
    /\ \A r \in db.region : r.country_id \in RowIds(db.country)
    /\ \A c \in db.city : c.region_id \in RowIds(db.region)
    /\ \A a \in db.address : a.city_id \in RowIds(db.city)

(***************************************************************************)
(* C27: uniqueness after any sequence of add / update calls: no two        *)
(* countries share a name or a non-null code, no two regions of a country  *)
(* share a name, no two cities of a region share a name; an add or update  *)
(* that would break this raises and leaves the database as it was.         *)
(***************************************************************************)
C27_UniquenessKept ==
    /\ NoDuplicates(db)
    /\ \A t \in Tables : \A obj \in NewInputsOf(t) :
          LET a == AddTo(db, t, obj) IN
          ~NoDuplicates(WithRow(db, t, AsNew(db, t, obj))) =>
              a.outcome = "raised" /\ a.db = db
    /\ \A t \in Tables : \A obj \in InputsOf(t) :
          LET u == UpdateIn(db, t, obj) IN
          (obj.id \in RowIds(db[t]) /\ ~NoDuplicates(WithRow(db, t, obj))) =>
              u.outcome = "raised" /\ u.db = db

\* an add raised in a database where two regions of different countries
\* share a name
C27_Witness ==
    /\ last.op = "add"
    /\ last.outcome = "raised"
    /\ \E r1, r2 \in db.region :
          r1.id # r2.id /\ r1.name = r2.name /\ r1.country_id # r2.country_id

(***************************************************************************)
(* One CRUD page: lab2/ui/pages/base_page.py and its four subclasses       *)
(*                                                                         *)
(* page.kind is the table the page manages.  The QTableWidget is the       *)
(* sequence page.rows of the ids it shows (UserRole data of column 0) and  *)
(* the selected row page.sel (0: none; SingleSelection, SelectRows).  A    *)
(* handler runs to its end in one step: its dialogs are modal.  The other  *)
(* fields record what the handler did: the dialog object it read, the      *)
(* answer to the confirmation, the message box shown and whether           *)
(* data_changed was emitted.                                               *)
(***************************************************************************)
\* ORDER BY of SQLite on the strings the model uses: NULL first
Rank(s) ==
    CASE s = None -> 0
      [] s = "" -> 1
      [] s = "A" -> 2
      [] s = "B" -> 3
      [] OTHER -> 4

\* the columns get_all_* orders by, then the rowid
SortKey(t, row) ==
    IF t = "address"
    THEN <<Rank(row.client_name), Rank(row.street), row.id>>
    ELSE <<Rank(row.name), 0, row.id>>

Before(t, a, b) ==
    LET x == SortKey(t, a)
        y == SortKey(t, b)
    IN  \/ x[1] < y[1]
        \/ x[1] = y[1] /\ x[2] < y[2]
        \/ x[1] = y[1] /\ x[2] = y[2] /\ x[3] < y[3]

\* the ids of the rows in the order of the SELECT
RECURSIVE Ordered(_, _)
Ordered(t, rows) ==
    IF rows = {} THEN <<>>
    ELSE LET first == CHOOSE r \in rows : \A o \in rows \ {r} : Before(t, r, o)
         IN  <<first.id>> \o Ordered(t, rows \ {first})

\* _load_data: get_all_countries / _regions / _cities / _addresses
Load(d, t) == Ordered(t, d[t])

\* column ILIKE '%query%' on the one-letter strings the model uses
Matches(s, query) == s # None /\ s = query

\* search_countries / search_regions / search_cities / search_addresses
SearchRows(d, t, query) ==
    CASE t = "country" ->
           {c \in d.country : Matches(c.name, query) \/ Matches(c.code, query)}
      [] t = "region" -> {r \in d.region : Matches(r.name, query)}
      [] t = "city" ->
           {c \in d.city : Matches(c.name, query) \/ Matches(c.postal_code, query)}
      [] t = "address" ->
           {a \in d.address :
              \E c \in d.city :
                 /\ c.id = a.city_id
                 /\ \/ Matches(a.client_name, query)
                    \/ Matches(a.street, query)
                    \/ Matches(c.name, query)}

\* texts typed into the search box
Queries == {"", "A"}

\* variant: the buttons are switched on whatever the selection is
on_selection_changed_Always(p) ==
    [p EXCEPT !.selected_id = IF p.sel # 0 THEN p.rows[p.sel] ELSE NoId,
              !.edit_enabled = TRUE, !.delete_enabled = TRUE]

\* BasePage._on_selection_changed, the slot of itemSelectionChanged
on_selection_changed(p) ==
    IF p.sel # 0
    THEN [p EXCEPT !.selected_id = p.rows[p.sel],
                   !.edit_enabled = TRUE, !.delete_enabled = TRUE]
    ELSE [p EXCEPT !.selected_id = NoId,
                   !.edit_enabled = FALSE, !.delete_enabled = FALSE]

\* _display_data: setRowCount(len(data)) removes the rows beyond the new
\* count, and with them the selection if it was there (the table then
\* emits itemSelectionChanged); setItem replaces the items of every row
\* and leaves the selection where it is
display_data(p, ids) ==
    IF p.sel > Len(ids)
    THEN [on_selection_changed([p EXCEPT !.sel = 0]) EXCEPT !.rows = ids]
    ELSE [p EXCEPT !.rows = ids]

\* BasePage.refresh_data
refresh_data(p, d) ==
    [display_data(p, Load(d, p.kind)) EXCEPT
        !.selected_id = NoId, !.edit_enabled = FALSE, !.delete_enabled = FALSE]

\* variant: only None counts as a missing text
NotStr_NoneOnly(s) == s = None

\* `not s` for a str or None
NotStr(s) == s = "" \/ s = None

\* `not i` for an id or None
NotId(i) == i = NoId

\* the required text of an object: its name, for an address its street
RequiredText(t, obj) == IF t = "address" THEN obj.street ELSE obj.name

\* the checks of _on_add and _on_edit on the object read from the dialog
Validate(t, obj) ==
    IF NotStr(RequiredText(t, obj)) THEN "no name"
    ELSE IF t # "country" /\ NotId(ParentId(t, obj)) THEN "no parent"
    ELSE "ok"

\* variant: any answer but a closed box counts as consent
confirm_delete_Unless(reply) == reply # "closed"

\* BasePage.confirm_delete: reply == QMessageBox.StandardButton.Yes
confirm_delete(reply) == reply = "Yes"

\* the answers to QMessageBox.question (No is the default button)
Replies == {"Yes", "No"}

\* what the dialog returns: the id of the object it was opened with, a
\* stripped text (empty when nothing but blanks was typed), the data of
\* the current item of the combo box (None while the placeholder shows)
CountryDialog(id) ==
    [id : {id}, name : {"", "A", "B"}, code : {"", "X"}]

RegionDialog(d, id) ==
    [id : {id}, country_id : RowIds(d.country) \cup {NoId},
     name : {"", "A", "B"}]

CityDialog(d, id) ==
    { [id |-> id, region_id |-> p, name |-> n[1], postal_code |-> n[2]] :
        p \in RowIds(d.region) \cup {NoId},
        n \in {<<"", None>>, <<"A", None>>, <<"B", "P">>} }

AddressDialog(d, id) ==
    { [id |-> id, city_id |-> p, street |-> n[1], house |-> n[2],
       apartment |-> n[3], client_name |-> n[4]] :
        p \in RowIds(d.city) \cup {NoId},
        n \in {<<"", None, None, None>>, <<"A", None, None, None>>,
               <<"B", "1", "2", "C">>} }

Dialog(d, t, id) ==
    CASE t = "country" -> CountryDialog(id)
      [] t = "region" -> RegionDialog(d, id)
      [] t = "city" -> CityDialog(d, id)
      [] t = "address" -> AddressDialog(d, id)

\* a database left by an earlier run: two countries, and one record on
\* every level below the first
SampleDb ==
    [country |-> {[id |-> 1, name |-> "A", code |-> "X"],
                  [id |-> 2, name |-> "B", code |-> ""]},
     region |-> {[id |-> 1, country_id |-> 1, name |-> "A"]},
     city |-> {[id |-> 1, region_id |-> 1, name |-> "A", postal_code |-> None]},
     address |-> {[id |-> 1, city_id |-> 1, street |-> "A", house |-> None,
                   apartment |-> None, client_name |-> None]}]

PageDatabasesAtStart == {EmptyDb, SampleDb}

\* BasePage.__init__ and _setup_ui: nothing shown or selected, Edit and
\* Delete disabled
NewPage(t) ==
    [kind |-> t, rows |-> <<>>, sel |-> 0, selected_id |-> NoId,
     edit_enabled |-> FALSE, delete_enabled |-> FALSE,
     event |-> "init", dialog |-> NoRow, asked |-> "none",
     message |-> "none", emitted |-> FALSE]

\* the page after a handler: what the handler did is recorded
Did(p, event, dialog, asked, message, emitted) ==
    [p EXCEPT !.event = event, !.dialog = dialog, !.asked = asked,
              !.message = message, !.emitted = emitted]

\* CountryPage.__init__ (and the other three): _setup_table, refresh_data
PageInit ==
    /\ db \in PageDatabasesAtStart
    /\ \E t \in Tables : page = refresh_data(NewPage(t), db)
    /\ last = NoCall
    /\ calc = <<>>
    /\ calls = <<>>
    /\ frames = <<>>
    /\ text = <<>>
    /\ pos = 0
    /\ result = <<>>
    /\ current_word = <<>>
    /\ pc = "idle"
    /\ ret = <<>>
    /\ kept = {}

\* the user selects another row: itemSelectionChanged
PageSelect ==
    /\ \E r \in 1..Len(page.rows) :
          /\ r # page.sel
          /\ page' = Did(on_selection_changed([page EXCEPT !.sel = r]),
                         "select", NoRow, "none", "none", FALSE)
    /\ last' = NoCall
    /\ UNCHANGED <<db, textVars, concVars, calcVars>>

\* the user deselects the selected row (Ctrl+click): itemSelectionChanged
PageDeselect ==
    /\ page.sel # 0
    /\ page' = Did(on_selection_changed([page EXCEPT !.sel = 0]),
                   "deselect", NoRow, "none", "none", FALSE)
    /\ last' = NoCall
    /\ UNCHANGED <<db, textVars, concVars, calcVars>>

\* the Refresh button, or the menu action on the current page
PageRefresh ==
    /\ page' = Did(refresh_data(page, db), "refresh", NoRow, "none", "none",
                   FALSE)
    /\ last' = NoCall
    /\ UNCHANGED <<db, textVars, concVars, calcVars>>

\* _on_search: the text of the search box changed
PageSearch ==
    /\ \E query \in Queries :
          LET data == IF query # ""
                      THEN Ordered(page.kind, SearchRows(db, page.kind, query))
                      ELSE Load(db, page.kind)
          IN  page' = Did(display_data(page, data), "search", NoRow, "none",
                          "none", FALSE)
    /\ last' = NoCall
    /\ UNCHANGED <<db, textVars, concVars, calcVars>>

\* _on_add
PageAdd ==
    /\ \E accepted \in BOOLEAN : \E obj \in Dialog(db, page.kind, NoId) :
          IF ~accepted
          THEN /\ page' = Did(page, "add", NoRow, "none", "none", FALSE)
               /\ last' = NoCall
               /\ db' = db
          ELSE IF Validate(page.kind, obj) # "ok"
          THEN /\ page' = Did(page, "add", obj, "none", "warning", FALSE)
               /\ last' = NoCall
               /\ db' = db
          ELSE LET r == AddTo(db, page.kind, obj) IN
               /\ r.outcome = "returned" =>
                     Cardinality(r.db[page.kind]) <= MaxRows /\ r.id <= MaxId
               /\ last' = Called("add", r)
               /\ db' = r.db
               /\ page' = IF r.outcome = "returned"
                          THEN Did(refresh_data(page, r.db), "add", obj,
                                   "none", "info", TRUE)
                          ELSE Did(page, "add", obj, "none", "error", FALSE)
    /\ UNCHANGED <<textVars, concVars, calcVars>>

\* _on_edit
PageEdit ==
    /\ IF NotId(page.selected_id)
       THEN /\ page' = Did(page, "edit", NoRow, "none", "none", FALSE)
            /\ last' = NoCall
            /\ db' = db
       ELSE IF GetById(db, page.kind, page.selected_id) = NoRow
       THEN /\ page' = Did(page, "edit", NoRow, "none", "error", FALSE)
            /\ last' = NoCall
            /\ db' = db
       ELSE \E accepted \in BOOLEAN :
            \E obj \in Dialog(db, page.kind, page.selected_id) :
               IF ~accepted
               THEN /\ page' = Did(page, "edit", NoRow, "none", "none", FALSE)
                    /\ last' = NoCall
                    /\ db' = db
               ELSE IF Validate(page.kind, obj) # "ok"
               THEN /\ page' = Did(page, "edit", obj, "none", "warning", FALSE)
                    /\ last' = NoCall
                    /\ db' = db
               ELSE LET r == UpdateIn(db, page.kind, obj) IN
                    /\ last' = Called("update", r)
                    /\ db' = r.db
                    /\ page' = IF r.outcome = "returned"
                               THEN Did(refresh_data(page, r.db), "edit", obj,
                                        "none", "info", TRUE)
                               ELSE Did(page, "edit", obj, "none", "error",
                                        FALSE)
    /\ UNCHANGED <<textVars, concVars, calcVars>>

\* _on_delete
PageDelete ==
    /\ IF NotId(page.selected_id)
          \/ GetById(db, page.kind, page.selected_id) = NoRow
       THEN /\ page' = Did(page, "delete", NoRow, "none", "none", FALSE)
            /\ last' = NoCall
            /\ db' = db
       ELSE \E reply \in Replies :
               IF ~confirm_delete(reply)
               THEN /\ page' = Did(page, "delete", NoRow, reply, "none", FALSE)
                    /\ last' = NoCall
                    /\ db' = db
               ELSE LET r == DeleteFrom(db, page.kind, page.selected_id) IN
                    /\ last' = Called("delete", r)
                    /\ db' = r.db
                    /\ page' =
                          IF r.outcome = "raised"
                          THEN Did(page, "delete", NoRow, reply, "error", FALSE)
                          ELSE IF r.ok
                          THEN Did(refresh_data(page, r.db), "delete", NoRow,
                                   reply, "info", TRUE)
                          ELSE Did(page, "delete", NoRow, reply, "warning",
                                   FALSE)
    /\ UNCHANGED <<textVars, concVars, calcVars>>

\* the page of another table deletes one of its records after the user
\* confirmed; this page is not refreshed by it
PageElsewhere ==
    /\ \E t \in Tables \ {page.kind} : \E id \in RowIds(db[t]) :
          db' = DeleteFrom(db, t, id).db
    /\ page' = Did(page, "elsewhere", NoRow, "none", "none", FALSE)
    /\ last' = NoCall
    /\ UNCHANGED <<textVars, concVars, calcVars>>

PageNext ==
    \/ PageSelect
    \/ PageDeselect
    \/ PageRefresh
    \/ PageSearch
    \/ PageAdd
    \/ PageEdit
    \/ PageDelete
    \/ PageElsewhere

PageSpec == PageInit /\ [][PageNext]_vars

(***************************************************************************)
(* Notions the page claims are stated with                                 *)
(***************************************************************************)
\* the handler read an object from an accepted dialog
DialogAccepted(p) == p.dialog # NoRow

\* a required field of the dialog object is missing: the name (street) is
\* empty after stripping, or no parent was chosen
MissingRequired(t, obj) ==
    \/ t = "address" /\ obj.street = ""
    \/ t # "address" /\ obj.name = ""
    \/ t = "region" /\ obj.country_id = NoId
    \/ t = "city" /\ obj.region_id = NoId
    \/ t = "address" /\ obj.city_id = NoId

ButtonsOff(p) == ~p.edit_enabled /\ ~p.delete_enabled

\* the table, the selection and the buttons of the two pages are the same
SameWidgets(p, q) ==
    /\ p.rows = q.rows
    /\ p.sel = q.sel
    /\ p.selected_id = q.selected_id
    /\ p.edit_enabled = q.edit_enabled
    /\ p.delete_enabled = q.delete_enabled

(***************************************************************************)
(* C28: an Add or Edit dialog accepted with a required field missing shows *)
(* a warning and writes nothing: the database is unchanged, no             *)
(* DatabaseManager write is called and data_changed is not emitted.        *)
(***************************************************************************)
C28_MissingFieldNoWrite ==
    [][(/\ page'.event \in {"add", "edit"}
        /\ DialogAccepted(page')
        /\ MissingRequired(page.kind, page'.dialog))
       => (/\ page'.message = "warning"
           /\ db' = db
           /\ last' = NoCall
           /\ ~page'.emitted
           /\ SameWidgets(page, page'))]_vars

\* Edit on the region page accepted with a name but with the placeholder
\* of the country combo still showing, while countries exist
C28_Witness ==
    /\ page.kind = "region"
    /\ page.event = "edit"
    /\ DialogAccepted(page)
    /\ page.dialog.name # ""
    /\ page.dialog.country_id = NoId
    /\ db.country # {}
    /\ page.message = "warning"

(***************************************************************************)
(* C29: a record is deleted only after the user confirmed: _on_delete with *)
(* no selected ID, with a selected ID whose record is gone, or answered    *)
(* "No" leaves the database unchanged and does not emit data_changed;      *)
(* data_changed is emitted only after an add, update or delete call of     *)
(* the DatabaseManager returned without raising.                           *)
(***************************************************************************)
C29_DeleteOnlyConfirmed ==
    [][/\ (/\ page'.event = "delete"
           /\ \/ page.selected_id = NoId
              \/ page.selected_id \notin RowIds(db[page.kind])
              \/ page'.asked # "Yes")
          => (db' = db /\ ~page'.emitted /\ last' = NoCall)
       /\ (page'.event = "delete" /\ db' # db) => page'.asked = "Yes"
       /\ page'.emitted =>
             /\ last'.op \in {"add", "update", "delete"}
             /\ last'.outcome = "returned"
             /\ page'.event \in {"add", "edit", "delete"}]_vars

\* Delete pressed while the selected record had been removed by the page of
\* an ancestor table
C29_Witness ==
    /\ page.event = "delete"
    /\ page.selected_id # NoId
    /\ page.selected_id \notin RowIds(db[page.kind])
    /\ page.delete_enabled

(***************************************************************************)
(* C30: Edit and Delete are enabled only while a table row is selected; a  *)
(* selection that becomes empty sets the selected ID to None and disables  *)
(* both; refresh_data (pressed, or run after a write) clears the selected  *)
(* ID and disables both; _on_edit and _on_delete do nothing when the       *)
(* selected ID is None.                                                    *)
(***************************************************************************)
C30_ButtonsFollowSelection ==
    /\ []((page.edit_enabled \/ page.delete_enabled) => page.sel # 0)
    /\ [](page.edit_enabled <=> page.delete_enabled)
    /\ [][(page.sel # 0 /\ page'.sel = 0)
          => (page'.selected_id = NoId /\ ButtonsOff(page'))]_vars
    /\ [][(page'.event = "refresh" \/ page'.emitted)
          => (page'.selected_id = NoId /\ ButtonsOff(page'))]_vars
    /\ [][(page'.event \in {"edit", "delete"} /\ page.selected_id = NoId)
          => (/\ db' = db
              /\ last' = NoCall
              /\ SameWidgets(page, page')
              /\ ~DialogAccepted(page')
              /\ page'.message = "none"
              /\ ~page'.emitted)]_vars

\* after a refresh the row is still selected in the table, the selected ID
\* is None and the buttons are disabled; Delete was then pressed
C30_Witness ==
    /\ page.event = "delete"
    /\ page.sel # 0
    /\ page.selected_id = NoId
    /\ ButtonsOff(page)

=============================================================================
